---- MODULE Spec2Model ----
(***************************************************************************)
(* Model of the two screen-text watchers of the repository:                *)
(*   - the digest loop, "TEST screen reader/screen_text_analyzer.py"       *)
(*     (main: capture, clean_text, sha1 digest dedup, bounded history);    *)
(*   - the fuzzy loop, scripts/screen_text_monitor.py                      *)
(*     (run: capture, normalize_text, diff_size threshold, analyze).       *)
(* One run of the model is one run of one of the two programs (prog).      *)
(* Text is a sequence of one-character strings.  Durations are in tenths   *)
(* of a second.                                                            *)
(***************************************************************************)
EXTENDS Integers, Sequences, FiniteSets, TLC

VARIABLES
    prog,         \* which program runs: "analyzer" or "monitor"
    pc,           \* position of the program
    argv,         \* the command-line arguments as given
    env,          \* process environment of the monitor: credential, package
    exit_code,    \* exit status once pc = "exited"
    created,      \* names of the loop locals that have been bound
    STOP,         \* analyzer: global flag set by handle_sigint
    prev_digest,  \* analyzer: main's prev_digest
    recent_text,  \* analyzer: main's deque(maxlen=args.history)
    cleaned,      \* analyzer: clean_text(raw) of the tick's capture
    digest,       \* analyzer: digest of cleaned
    config,       \* monitor: AnalysisConfig built by parse_args
    previous,     \* monitor: run's previous
    current,      \* monitor: run's current
    changed,      \* monitor: run's changed = diff_size(previous, current)
    ticks,        \* number of ticks started (capture attempts)
    verdict,      \* this tick: "none", "failed", "changed", "unchanged"
    out,          \* what this tick has printed so far
    slept,        \* the sleeps this tick has made
    reports,      \* number of reports printed in the run
    recorded,     \* analyzer: every text appended to recent_text, in order
    last,         \* the previous completed tick: its text, verdict, analysis error
    tick0,        \* the previous-sample state and history at the tick's start
    sig_tick,     \* value of ticks when cancellation was signalled, else -1
    cut,          \* position of the program when cancellation was signalled ("" if none)
    steps,        \* the statements of the changed branch this tick has run, in order
    last_changed, \* the text of the most recent tick whose verdict was changed
    input,        \* text under normalization: the string given to the function
    norm,         \* results of normalize_text applied to input, then to its result
    clean         \* results of clean_text applied to input, then to its result

vars == <<prog, pc, argv, env, exit_code, created, STOP, prev_digest,
          recent_text, cleaned, digest, config, previous, current, changed,
          ticks, verdict, out, slept, reports, recorded, last, tick0,
          sig_tick, cut, steps, last_changed, input, norm, clean>>

loop_vars == <<prog, pc, argv, env, exit_code, created, STOP, prev_digest,
               recent_text, cleaned, digest, config, previous, current, changed,
               ticks, verdict, out, slept, reports, recorded, last, tick0,
               sig_tick, cut, steps, last_changed>>
pure_vars == <<input, norm, clean>>

(***************************************************************************)
(* Bounds of the model.                                                    *)
(***************************************************************************)
MaxTicks == 4
MaxHistory == 2
MaxThreshold == 2
MaxLen == 5

(***************************************************************************)
(* Program constants (tenths of a second).                                 *)
(***************************************************************************)
MinInterval == 5
BackoffFloor == 20
DefaultInterval == 20

Max(a, b) == IF a >= b THEN a ELSE b

(***************************************************************************)
(* Characters and whitespace.                                              *)
(***************************************************************************)
SP == " "
TAB == "\t"
CR == "\r"
LF == "\n"
Whitespace == {SP, TAB, CR, LF}
Blank == {SP, TAB}

RECURSIVE LStrip(_)
LStrip(s) ==
    IF s = <<>> THEN <<>>
    ELSE IF Head(s) \in Whitespace THEN LStrip(Tail(s)) ELSE s

RECURSIVE RStrip(_)
RStrip(s) ==
    IF s = <<>> THEN <<>>
    ELSE IF s[Len(s)] \in Whitespace THEN RStrip(SubSeq(s, 1, Len(s) - 1)) ELSE s

\* str.strip()
Strip(s) == RStrip(LStrip(s))

\* length of the longest prefix of s whose characters are all in set
RECURSIVE RunLen(_, _)
RunLen(s, set) ==
    IF s = <<>> \/ Head(s) \notin set THEN 0 ELSE 1 + RunLen(Tail(s), set)

Drop(s, n) == SubSeq(s, n + 1, Len(s))

\* text.replace("\r", "")
RemoveCR(s) == SelectSeq(s, LAMBDA c : c # CR)

\* re.sub(r"[ \t]+", " ", text)
RECURSIVE CollapseBlanks(_)
CollapseBlanks(s) ==
    IF s = <<>> THEN <<>>
    ELSE IF Head(s) \in Blank
         THEN <<SP>> \o CollapseBlanks(Drop(s, RunLen(s, Blank)))
         ELSE <<Head(s)>> \o CollapseBlanks(Tail(s))

\* re.sub(r"\n{3,}", "\n\n", text)
RECURSIVE CollapseNewlines(_)
CollapseNewlines(s) ==
    IF s = <<>> THEN <<>>
    ELSE IF Head(s) = LF
         THEN LET n == RunLen(s, {LF})
              IN  (IF n >= 3 THEN <<LF, LF>> ELSE SubSeq(s, 1, n))
                      \o CollapseNewlines(Drop(s, n))
         ELSE <<Head(s)>> \o CollapseNewlines(Tail(s))

\* normalize_text with the carriage returns removed after the blank runs are
\* collapsed
normalize_text_cr_after_blanks(text) ==
    Strip(CollapseNewlines(RemoveCR(CollapseBlanks(text))))

normalize_text(text) == Strip(CollapseNewlines(CollapseBlanks(RemoveCR(text))))

\* str.splitlines(): breaks at "\n", "\r" and "\r\n"; no empty last line
RECURSIVE SplitLines(_)
SplitLines(s) ==
    IF s = <<>> THEN <<>>
    ELSE LET n == RunLen(s, {c \in {s[i] : i \in 1..Len(s)} : c \notin {CR, LF}})
         IN  IF n = Len(s) THEN <<s>>
             ELSE LET brk == IF s[n + 1] = CR /\ n + 2 <= Len(s) /\ s[n + 2] = LF
                             THEN 2 ELSE 1
                  IN  <<SubSeq(s, 1, n)>> \o SplitLines(Drop(s, n + brk))

\* "\n".join(lines)
RECURSIVE JoinLines(_)
JoinLines(lines) ==
    IF lines = <<>> THEN <<>>
    ELSE IF Len(lines) = 1 THEN lines[1]
    ELSE lines[1] \o <<LF>> \o JoinLines(Tail(lines))

clean_text(text) ==
    LET split == SplitLines(text)
        lines == [i \in 1..Len(split) |-> Strip(split[i])]
    IN  JoinLines(SelectSeq(lines, LAMBDA ln : ln # <<>>))

\* sha1(...).hexdigest(): never the empty string, and taken to be free of
\* collisions on the texts of the model
\* a digest taken of the first character alone, so that texts collide
Sha1HexOfPrefix(text) == IF text = <<>> THEN <<"sha1:">> ELSE <<"sha1:", text[1]>>

Sha1Hex(text) == <<"sha1:">> \o text

(***************************************************************************)
(* difflib.SequenceMatcher(a=old, b=new), as diff_size uses it.  Indices   *)
(* are Python's (from 0, half open).  isjunk is None; the autojunk         *)
(* heuristic acts only on texts of 200 characters or more, beyond the      *)
(* lengths of the model.                                                   *)
(***************************************************************************)
\* length of the common run of a from i and b from j, inside [.., ahi) x [.., bhi)
RECURSIVE MatchLen(_, _, _, _, _, _)
MatchLen(a, b, i, j, ahi, bhi) ==
    IF i < ahi /\ j < bhi /\ a[i + 1] = b[j + 1]
    THEN 1 + MatchLen(a, b, i + 1, j + 1, ahi, bhi)
    ELSE 0

\* find_longest_match: the longest block, the earliest in a, then in b
FindLongestMatch(a, b, alo, ahi, blo, bhi) ==
    LET starts == {p \in (alo..(ahi - 1)) \X (blo..(bhi - 1)) : a[p[1] + 1] = b[p[2] + 1]}
        size(p) == MatchLen(a, b, p[1], p[2], ahi, bhi)
        Better(p, q) == \/ size(p) > size(q)
                        \/ size(p) = size(q) /\ p[1] < q[1]
                        \/ size(p) = size(q) /\ p[1] = q[1] /\ p[2] <= q[2]
    IN  IF starts = {} THEN <<alo, blo, 0>>
        ELSE LET best == CHOOSE p \in starts : \A q \in starts : Better(p, q)
             IN  <<best[1], best[2], size(best)>>

\* get_matching_blocks, without the closing (len(a), len(b), 0) block
RECURSIVE MatchingBlocks(_, _, _, _, _, _)
MatchingBlocks(a, b, alo, ahi, blo, bhi) ==
    LET m == FindLongestMatch(a, b, alo, ahi, blo, bhi)
        i == m[1]
        j == m[2]
        k == m[3]
    IN  IF k = 0 THEN <<>>
        ELSE (IF alo < i /\ blo < j THEN MatchingBlocks(a, b, alo, i, blo, j) ELSE <<>>)
             \o <<m>>
             \o (IF i + k < ahi /\ j + k < bhi
                 THEN MatchingBlocks(a, b, i + k, ahi, j + k, bhi) ELSE <<>>)

RECURSIVE OpcodesFrom(_, _, _)
OpcodesFrom(blocks, i, j) ==
    IF blocks = <<>> THEN <<>>
    ELSE LET ai == Head(blocks)[1]
             bj == Head(blocks)[2]
             size == Head(blocks)[3]
             tag == IF i < ai /\ j < bj THEN "replace"
                    ELSE IF i < ai THEN "delete"
                    ELSE IF j < bj THEN "insert" ELSE ""
             gap == IF tag # ""
                    THEN <<[tag |-> tag, i1 |-> i, i2 |-> ai, j1 |-> j, j2 |-> bj]>>
                    ELSE <<>>
             eq == IF size > 0
                   THEN <<[tag |-> "equal", i1 |-> ai, i2 |-> ai + size,
                           j1 |-> bj, j2 |-> bj + size]>>
                   ELSE <<>>
         IN  gap \o eq \o OpcodesFrom(Tail(blocks), ai + size, bj + size)

get_opcodes(a, b) ==
    OpcodesFrom(MatchingBlocks(a, b, 0, Len(a), 0, Len(b)) \o <<<<Len(a), Len(b), 0>>>>,
                0, 0)

RECURSIVE SumChanged(_)
SumChanged(ops) ==
    IF ops = <<>> THEN 0
    ELSE (IF Head(ops).tag # "equal"
          THEN (Head(ops).i2 - Head(ops).i1) + (Head(ops).j2 - Head(ops).j1)
          ELSE 0) + SumChanged(Tail(ops))

\* diff_size without the test tag != "equal"
diff_size_every_opcode(old, new) == Len(old) + Len(new)

\* diff_size taken as the growth of the text
diff_size_growth(old, new) == Len(new) - Len(old)

diff_size(old, new) == SumChanged(get_opcodes(old, new))

(***************************************************************************)
(* Inputs: command lines, environments and what the screen can show.       *)
(***************************************************************************)
IntPart(n) == [isInt |-> TRUE, val |-> n]
JunkPart == [isInt |-> FALSE, val |-> 0]

\* --region: absent, the empty string, or a text split at its commas
RegionArgs ==
    { [kind |-> "None", parts |-> <<>>],
      [kind |-> "empty", parts |-> <<>>],
      [kind |-> "text", parts |-> <<IntPart(0), IntPart(0), IntPart(1), IntPart(1)>>],
      [kind |-> "text", parts |-> <<IntPart(1), IntPart(0), IntPart(1), IntPart(1)>>],
      [kind |-> "text", parts |-> <<IntPart(0), IntPart(1), IntPart(1), IntPart(0)>>],
      [kind |-> "text", parts |-> <<IntPart(0), IntPart(0), IntPart(1)>>],
      [kind |-> "text", parts |-> <<IntPart(0), IntPart(0), JunkPart, IntPart(1)>>] }

\* --interval: 0.4 s (below the floor), 0.5 s, 2.0 s (the default), 3.0 s
IntervalArgs == {MinInterval - 1, MinInterval, DefaultInterval, BackoffFloor + 10}

AnalyzerArgs ==
    [interval : IntervalArgs \ {DefaultInterval},
     region : RegionArgs,
     history : (-1)..MaxHistory]

MonitorArgs ==
    [interval : {MinInterval - 1, DefaultInterval},
     min_change_chars : (-1)..MaxThreshold,
     show_raw_text : BOOLEAN,
     model : {"local", "gpt-4.1-mini"}]

Envs == [api_key : BOOLEAN, openai_pkg : BOOLEAN]

\* what OCR can return for the screen
ScreenTexts ==
    { <<>>,
      <<SP, LF>>,
      <<"a">>,
      <<"a", TAB, SP>>,
      <<"a", "b">>,
      <<"a", "b", "b">>,
      <<"a", CR, LF, LF, "b">> }

Line(kind, text, note) == [kind |-> kind, text |-> text, note |-> note]

\* the lines of kind k among lines
OfKind(lines, k) == SelectSeq(lines, LAMBDA l : l.kind = k)
HasKind(lines, k) == OfKind(lines, k) # <<>>

NoConfig == [interval |-> 0, min_change_chars |-> 0, show_raw_text |-> FALSE, model |-> ""]

\* the loop locals and the bookkeeping before anything has run
Idle ==
    /\ exit_code = 0
    /\ created = {}
    /\ STOP = FALSE
    /\ prev_digest = <<>>
    /\ recent_text = <<>>
    /\ cleaned = <<>>
    /\ digest = <<>>
    /\ config = NoConfig
    /\ previous = <<>>
    /\ current = <<>>
    /\ changed = 0
    /\ ticks = 0
    /\ verdict = "none"
    /\ out = <<>>
    /\ slept = <<>>
    /\ reports = 0
    /\ recorded = <<>>
    /\ last = [cap |-> <<>>, verdict |-> "none", error |-> FALSE]
    /\ tick0 = [prev |-> <<>>, hist |-> <<>>]
    /\ sig_tick = -1
    /\ cut = ""
    /\ steps = <<>>
    /\ last_changed = <<>>

Init ==
    /\ prog \in {"analyzer", "monitor"}
    /\ pc = "startup"
    /\ \/ prog = "analyzer" /\ argv \in AnalyzerArgs
          /\ env = [api_key |-> FALSE, openai_pkg |-> FALSE]
       \/ prog = "monitor" /\ argv \in MonitorArgs /\ env \in Envs
    /\ Idle
    /\ input = <<>>
    /\ norm = <<>>
    /\ clean = <<>>

analyzer_vars == <<STOP, prev_digest, recent_text, cleaned, digest, recorded>>
monitor_vars == <<config, previous, current, changed>>

(***************************************************************************)
(* The digest loop: screen_text_analyzer.py                                *)
(***************************************************************************)
\* parse_region without the test of line 158
parse_region_no_bounds(region) ==
    IF region.kind # "text" THEN [ok |-> TRUE, err |-> ""]
    ELSE IF Len(region.parts) # 4
         THEN [ok |-> FALSE, err |-> "Region must be x1,y1,x2,y2"]
    ELSE IF \E i \in 1..4 : ~region.parts[i].isInt
         THEN [ok |-> FALSE, err |-> "invalid literal for int()"]
    ELSE [ok |-> TRUE, err |-> ""]

parse_region(region) ==
    IF region.kind # "text" THEN [ok |-> TRUE, err |-> ""]
    ELSE IF Len(region.parts) # 4
         THEN [ok |-> FALSE, err |-> "Region must be x1,y1,x2,y2"]
    ELSE IF \E i \in 1..4 : ~region.parts[i].isInt
         THEN [ok |-> FALSE, err |-> "invalid literal for int()"]
    ELSE IF ~(region.parts[3].val > region.parts[1].val
              /\ region.parts[4].val > region.parts[2].val)
         THEN [ok |-> FALSE, err |-> "Region must satisfy x2>x1 and y2>y1"]
    ELSE [ok |-> TRUE, err |-> ""]

summarize_recent(history) ==
    IF history = <<>> THEN "No text captured yet." ELSE "Recent topic terms"

\* a deque that never evicts
DequeAppendUnbounded(d, x, maxlen) == Append(d, x)

\* deque(maxlen=maxlen).append(x)
DequeAppend(d, x, maxlen) ==
    IF maxlen = 0 THEN d
    ELSE IF Len(d) = maxlen THEN Append(Tail(d), x)
    ELSE Append(d, x)

IntervalTooSmall(interval) == interval < MinInterval

\* the backoff without its 2.0 s floor
BackoffSleepNoFloor(interval) == interval

BackoffSleep(interval) == Max(interval, BackoffFloor)

\* line 227 without the test for an empty digest
DigestChangedNoEmptyTest(d, prev) == d # prev

\* line 227 without the comparison with prev_digest
DigestChangedNoDedup(d, prev) == d # <<>>

\* the test of line 227
DigestChanged(d, prev) == d # <<>> /\ d # prev

Exit(code, lines) ==
    /\ pc' = "exited"
    /\ exit_code' = code
    /\ out' = out \o lines

\* main, from argument parsing to the first test of the while loop
MainStartup ==
    /\ prog = "analyzer" /\ pc = "startup"
    /\ IF IntervalTooSmall(argv.interval)
       THEN /\ Exit(2, <<Line("stderr", <<>>, "Interval too small. Use >= 0.5 seconds.")>>)
            /\ UNCHANGED created
       ELSE IF ~parse_region(argv.region).ok
       THEN /\ Exit(2, <<Line("stderr", <<>>, parse_region(argv.region).err)>>)
            /\ UNCHANGED created
       ELSE IF argv.history < 0
       THEN \* deque(maxlen=...) raises ValueError, which nothing catches
            /\ Exit(1, <<Line("Traceback", <<>>, "maxlen must be non-negative")>>)
            /\ created' = {"prev_digest"}
       ELSE /\ pc' = "loop"
            /\ created' = {"prev_digest", "recent_text"}
            /\ UNCHANGED <<exit_code, out>>
    /\ UNCHANGED <<pure_vars, steps, last_changed, prog, argv, env,
                   analyzer_vars, monitor_vars, ticks, verdict,
                   slept, reports, last, tick0, sig_tick, cut>>

\* SIGINT left to Python's default handler: KeyboardInterrupt ends main at once
HandleSigintRaises ==
    /\ prog = "analyzer"
    /\ pc \in {"loop", "capture", "process", "sleep", "backoff"}
    /\ ~STOP
    /\ STOP' = TRUE
    /\ sig_tick' = ticks
    /\ cut' = pc
    /\ Exit(0, <<Line("stdout", <<>>, "Stopped.")>>)
    /\ UNCHANGED <<pure_vars, steps, last_changed, prog, argv, env,
                   created, prev_digest, recent_text,
                   cleaned, digest, recorded, monitor_vars, ticks, verdict,
                   slept, reports, last, tick0>>

\* handle_sigint, once main has installed it
HandleSigint ==
    /\ prog = "analyzer"
    /\ pc \in {"loop", "capture", "process", "sleep", "backoff"}
    /\ ~STOP
    /\ STOP' = TRUE
    /\ sig_tick' = ticks
    /\ cut' = pc
    /\ UNCHANGED <<pure_vars, steps, last_changed, prog, pc, argv, env,
                   exit_code, created, prev_digest, recent_text,
                   cleaned, digest, recorded, monitor_vars, ticks, verdict, out,
                   slept, reports, last, tick0>>

\* the loop written "while True": the flag set by handle_sigint is never read
LoopTestIgnoresStop ==
    /\ prog = "analyzer" /\ pc = "loop"
    /\ ticks < MaxTicks
    /\ pc' = "capture"
    /\ ticks' = ticks + 1
    /\ verdict' = "none"
    /\ out' = <<>>
    /\ steps' = <<>>
    /\ slept' = <<>>
    /\ tick0' = [prev |-> prev_digest, hist |-> recent_text]
    /\ UNCHANGED <<pure_vars, last_changed, prog, argv, env, exit_code,
                   created, analyzer_vars, monitor_vars, reports,
                   last, sig_tick, cut>>

\* while not STOP: ... print("\nStopped."); return 0
LoopTest ==
    /\ prog = "analyzer" /\ pc = "loop"
    /\ IF STOP
       THEN /\ Exit(0, <<Line("stdout", <<>>, "Stopped.")>>)
            /\ UNCHANGED <<ticks, verdict, slept, tick0, steps>>
       ELSE /\ ticks < MaxTicks
            /\ pc' = "capture"
            /\ ticks' = ticks + 1
            /\ verdict' = "none"
            /\ out' = <<>>
            /\ steps' = <<>>
            /\ slept' = <<>>
            /\ tick0' = [prev |-> prev_digest, hist |-> recent_text]
            /\ UNCHANGED exit_code
    /\ UNCHANGED <<pure_vars, last_changed, prog, argv, env,
                   created, analyzer_vars, monitor_vars, reports,
                   last, sig_tick, cut>>

\* capture_screen_text returns; clean_text and the digest of lines 224-225
CaptureOk ==
    /\ prog = "analyzer" /\ pc = "capture"
    /\ \E raw \in ScreenTexts :
          /\ cleaned' = clean_text(raw)
          /\ digest' = IF clean_text(raw) # <<>> THEN Sha1Hex(clean_text(raw)) ELSE <<>>
    /\ pc' = "process"
    /\ UNCHANGED <<pure_vars, steps, last_changed, prog, argv, env,
                   exit_code, created, STOP, prev_digest, recent_text,
                   recorded, monitor_vars, ticks, verdict, out, slept, reports,
                   last, tick0, sig_tick, cut>>

\* capture_screen_text raises: lines 218-220
CaptureFail ==
    /\ prog = "analyzer" /\ pc = "capture"
    /\ out' = Append(out, Line("stderr", <<>>, "OCR/capture error"))
    /\ verdict' = "failed"
    /\ pc' = "backoff"
    /\ UNCHANGED <<pure_vars, steps, last_changed, prog, argv, env,
                   exit_code, created, analyzer_vars, monitor_vars,
                   ticks, slept, reports, last, tick0, sig_tick, cut>>

\* time.sleep(max(args.interval, 2.0)); continue
Backoff ==
    /\ prog = "analyzer" /\ pc = "backoff"
    /\ slept' = Append(slept, BackoffSleep(argv.interval))
    /\ pc' = "loop"
    /\ UNCHANGED <<pure_vars, steps, last_changed, prog, argv, env,
                   exit_code, created, analyzer_vars, monitor_vars,
                   ticks, verdict, out, reports, last, tick0, sig_tick, cut>>

\* the statements of the changed branch, lines 228-232, in the order written:
\* prev_digest = digest, recent_text.append, analyze_text, summarize_recent,
\* print_analysis
\* the changed branch with prev_digest = digest as its last statement
ProcessStepsAdvanceLast == <<"record", "extract", "summarize", "emit", "advance">>

ProcessSteps == <<"advance", "record", "extract", "summarize", "emit">>

\* lines 227-232 with recent_text.append(cleaned) moved in front of the if
ProcessRecordsEveryCapture ==
    /\ prog = "analyzer" /\ pc = "process"
    /\ recent_text' = DequeAppend(recent_text, cleaned, argv.history)
    /\ recorded' = Append(recorded, cleaned)
    /\ IF DigestChanged(digest, prev_digest)
       THEN /\ prev_digest' = digest
            /\ out' = Append(out, Line("Screen text updated", cleaned,
                                       summarize_recent(recent_text')))
            /\ reports' = reports + 1
            /\ verdict' = "changed"
            /\ last_changed' = cleaned
            /\ steps' = ProcessSteps
       ELSE /\ verdict' = "unchanged"
            /\ UNCHANGED <<prev_digest, out, reports, last_changed, steps>>
    /\ pc' = "sleep"
    /\ UNCHANGED <<pure_vars, prog, argv, env,
                   exit_code, created, STOP, cleaned, digest,
                   monitor_vars, ticks, slept, last, tick0, sig_tick, cut>>

\* lines 227-232
Process ==
    /\ prog = "analyzer" /\ pc = "process"
    /\ IF DigestChanged(digest, prev_digest)
       THEN /\ prev_digest' = digest
            /\ recent_text' = DequeAppend(recent_text, cleaned, argv.history)
            /\ recorded' = Append(recorded, cleaned)
            /\ out' = Append(out, Line("Screen text updated", cleaned,
                                       summarize_recent(recent_text')))
            /\ reports' = reports + 1
            /\ verdict' = "changed"
            /\ last_changed' = cleaned
            /\ steps' = ProcessSteps
       ELSE /\ verdict' = "unchanged"
            /\ UNCHANGED <<prev_digest, recent_text, recorded, out, reports,
                           last_changed, steps>>
    /\ pc' = "sleep"
    /\ UNCHANGED <<pure_vars, prog, argv, env,
                   exit_code, created, STOP, cleaned, digest,
                   monitor_vars, ticks, slept, last, tick0, sig_tick, cut>>

\* time.sleep(args.interval)
Sleep ==
    /\ prog = "analyzer" /\ pc = "sleep"
    /\ slept' = Append(slept, argv.interval)
    /\ last' = [cap |-> cleaned, verdict |-> verdict, error |-> FALSE]
    /\ pc' = "loop"
    /\ UNCHANGED <<pure_vars, steps, last_changed, prog, argv, env,
                   exit_code, created, analyzer_vars, monitor_vars,
                   ticks, verdict, out, reports, tick0, sig_tick, cut>>

AnalyzerNext ==
    \/ MainStartup
    \/ HandleSigint
    \/ LoopTest
    \/ CaptureOk
    \/ CaptureFail
    \/ Backoff
    \/ Process
    \/ Sleep

(***************************************************************************)
(* The fuzzy loop: screen_text_monitor.py                                  *)
(***************************************************************************)
parse_args(a) ==
    [interval |-> Max(MinInterval, a.interval),
     min_change_chars |-> Max(0, a.min_change_chars),
     show_raw_text |-> a.show_raw_text,
     model |-> a.model]

\* what analyze(text, model) can do: return a narrative or raise an Exception
analyze(text, model, e) ==
    IF model = "local"
    THEN {[ok |-> TRUE, note |-> "local_analysis"]}
    ELSE IF ~e.api_key
    THEN {[ok |-> FALSE, note |-> "OPENAI_API_KEY is not set"]}
    ELSE IF ~e.openai_pkg
    THEN {[ok |-> FALSE, note |-> "openai package not installed"]}
    ELSE {[ok |-> TRUE, note |-> "output_text"],
          [ok |-> FALSE, note |-> "service error"]}

\* the test of line 140
\* the threshold test written with > in place of >=
FuzzyChangedStrict(n, min_change_chars) == n > min_change_chars

FuzzyChanged(n, min_change_chars) == n >= min_change_chars

\* every outcome printed as an analysis
AnalysisBlockNoErrorTitle(r, text) == Line("Analysis", text, r.note)

\* the block run prints for the outcome r of analyze: lines 143-147
AnalysisBlock(r, text) ==
    IF r.ok THEN Line("Analysis", text, r.note)
    ELSE Line("Analysis error", <<>>, r.note)

\* previous = current moved inside the try statement
AdvanceOnSuccess(prev, cur, failed) == IF failed THEN prev ELSE cur

\* the value run leaves in previous at line 149, after the try statement has
\* printed a report (failed: analyze raised)
Advance(prev, cur, failed) == cur

\* main and parse_args, then run up to the first capture
MonitorStartup ==
    /\ prog = "monitor" /\ pc = "startup"
    /\ config' = parse_args(argv)
    /\ previous' = <<>>
    /\ created' = {"previous"}
    /\ pc' = "capture"
    /\ UNCHANGED <<pure_vars, steps, last_changed, prog, argv, env,
                   exit_code, analyzer_vars, current, changed,
                   ticks, verdict, out, slept, reports, last, tick0, sig_tick, cut>>

\* current = capture_ocr_text(); changed = diff_size(previous, current)
MonitorCaptureOk ==
    /\ prog = "monitor" /\ pc = "capture"
    /\ ticks < MaxTicks
    /\ \E raw \in ScreenTexts :
          /\ current' = normalize_text(raw)
          /\ changed' = diff_size(previous, normalize_text(raw))
    /\ ticks' = ticks + 1
    /\ verdict' = "none"
    /\ out' = <<>>
    /\ steps' = <<>>
    /\ slept' = <<>>
    /\ tick0' = [prev |-> previous, hist |-> <<>>]
    /\ pc' = "decide"
    /\ UNCHANGED <<pure_vars, last_changed, prog, argv, env,
                   exit_code, created, analyzer_vars, config,
                   previous, reports, last, sig_tick, cut>>

\* capture_ocr_text raises: nothing in run or main catches it
MonitorCaptureFail ==
    /\ prog = "monitor" /\ pc = "capture"
    /\ ticks < MaxTicks
    /\ ticks' = ticks + 1
    /\ verdict' = "failed"
    /\ slept' = <<>>
    /\ steps' = <<>>
    /\ tick0' = [prev |-> previous, hist |-> <<>>]
    /\ pc' = "exited"
    /\ exit_code' = 1
    /\ out' = <<Line("Traceback", <<>>, "capture error")>>
    /\ UNCHANGED <<pure_vars, last_changed, prog, argv, env,
                   created, analyzer_vars, monitor_vars, reports,
                   last, sig_tick, cut>>

\* run with previous = current moved out of the if, after both branches
DecideAdvancesAlways ==
    /\ prog = "monitor" /\ pc = "decide"
    /\ IF FuzzyChanged(changed, config.min_change_chars)
       THEN /\ verdict' = "changed"
            /\ out' = IF config.show_raw_text
                      THEN Append(out, Line("OCR text", current, ""))
                      ELSE out
            /\ pc' = "analyze"
            /\ last_changed' = current
            /\ UNCHANGED previous
       ELSE /\ verdict' = "unchanged"
            /\ out' = Append(out, Line("No meaningful change", <<>>, ""))
            /\ pc' = "sleep"
            /\ previous' = current
            /\ UNCHANGED last_changed
    /\ UNCHANGED <<pure_vars, steps, prog, argv, env,
                   exit_code, created, analyzer_vars, config, current, changed,
                   ticks, slept, reports, last, tick0, sig_tick, cut>>

\* if changed >= config.min_change_chars: ... else: print("No meaningful change")
Decide ==
    /\ prog = "monitor" /\ pc = "decide"
    /\ IF FuzzyChanged(changed, config.min_change_chars)
       THEN /\ verdict' = "changed"
            /\ out' = IF config.show_raw_text
                      THEN Append(out, Line("OCR text", current, ""))
                      ELSE out
            /\ pc' = "analyze"
            /\ last_changed' = current
       ELSE /\ verdict' = "unchanged"
            /\ out' = Append(out, Line("No meaningful change", <<>>, ""))
            /\ pc' = "sleep"
            /\ UNCHANGED last_changed
    /\ UNCHANGED <<pure_vars, steps, prog, argv, env,
                   exit_code, created, analyzer_vars, monitor_vars,
                   ticks, slept, reports, last, tick0, sig_tick, cut>>

\* the try statement of lines 143-147
Analyze ==
    /\ prog = "monitor" /\ pc = "analyze"
    /\ \E r \in analyze(current, config.model, env) :
          out' = Append(out, AnalysisBlock(r, current))
    /\ reports' = reports + 1
    /\ steps' = steps \o <<"analyze", "emit">>
    /\ pc' = "advance"
    /\ UNCHANGED <<pure_vars, last_changed, prog, argv, env,
                   exit_code, created, analyzer_vars, monitor_vars,
                   ticks, verdict, slept, last, tick0, sig_tick, cut>>

\* previous = current
AdvancePrevious ==
    /\ prog = "monitor" /\ pc = "advance"
    /\ previous' = Advance(previous, current, HasKind(out, "Analysis error"))
    /\ steps' = Append(steps, "advance")
    /\ pc' = "sleep"
    /\ UNCHANGED <<pure_vars, last_changed, prog, argv, env,
                   exit_code, created, analyzer_vars, config,
                   current, changed, ticks, verdict, out, slept, reports,
                   last, tick0, sig_tick, cut>>

\* time.sleep(config.interval)
MonitorSleep ==
    /\ prog = "monitor" /\ pc = "sleep"
    /\ slept' = Append(slept, config.interval)
    /\ last' = [cap |-> current, verdict |-> verdict, error |-> HasKind(out, "Analysis error")]
    /\ pc' = "capture"
    /\ UNCHANGED <<pure_vars, steps, last_changed, prog, argv, env,
                   exit_code, created, analyzer_vars, monitor_vars,
                   ticks, verdict, out, reports, tick0, sig_tick, cut>>

\* KeyboardInterrupt raised inside run, wherever run is; main prints "Stopped."
KeyboardInterrupt ==
    /\ prog = "monitor"
    /\ pc \in {"capture", "decide", "analyze", "advance", "sleep"}
    /\ cut' = pc
    /\ sig_tick' = ticks
    /\ Exit(0, <<Line("stdout", <<>>, "Stopped.")>>)
    /\ UNCHANGED <<pure_vars, steps, last_changed, prog, argv, env,
                   created, analyzer_vars, config, previous,
                   current, changed, ticks, verdict, slept, reports, last, tick0>>

MonitorNext ==
    \/ MonitorStartup
    \/ MonitorCaptureOk
    \/ MonitorCaptureFail
    \/ Decide
    \/ Analyze
    \/ AdvancePrevious
    \/ MonitorSleep
    \/ KeyboardInterrupt

Next == AnalyzerNext \/ MonitorNext

Spec == Init /\ [][Next]_vars

\* every capture, analysis and sleep returns: a step of the loop that can be
\* taken is taken; which way a capture or an analysis ends is left open
AnalyzerTick == LoopTest \/ CaptureOk \/ CaptureFail \/ Backoff \/ Process \/ Sleep

MonitorTick ==
    \/ MonitorCaptureOk \/ MonitorCaptureFail
    \/ Decide \/ Analyze \/ AdvancePrevious \/ MonitorSleep

FairSpec == Spec /\ WF_vars(AnalyzerTick) /\ WF_vars(MonitorTick)

(***************************************************************************)
(* The two normalizations on their own: every text of at most MaxLen       *)
(* characters over a letter, space, tab, carriage return and newline is    *)
(* given to normalize_text and to clean_text, and each result is given to  *)
(* the same function again.                                                *)
(***************************************************************************)
Chars == {"a", SP, TAB, CR, LF}

Texts == UNION {[1..n -> Chars] : n \in 0..MaxLen}

TextInit ==
    /\ prog = "text"
    /\ pc = "call"
    /\ argv = <<>>
    /\ env = [api_key |-> FALSE, openai_pkg |-> FALSE]
    /\ Idle
    /\ input \in Texts
    /\ norm = <<>>
    /\ clean = <<>>

\* the argument of the next call: the input, then the previous result
Arg(results) == IF results = <<>> THEN input ELSE results[Len(results)]

\* normalize_text(x), then normalize_text of that result
CallNormalizeText ==
    /\ prog = "text"
    /\ Len(norm) < 2
    /\ norm' = Append(norm, normalize_text(Arg(norm)))
    /\ UNCHANGED <<loop_vars, input, clean>>

\* clean_text(x), then clean_text of that result
CallCleanText ==
    /\ prog = "text"
    /\ Len(clean) < 2
    /\ clean' = Append(clean, clean_text(Arg(clean)))
    /\ UNCHANGED <<loop_vars, input, norm>>

TextNext == CallNormalizeText \/ CallCleanText

TextSpec == TextInit /\ [][TextNext]_vars

(***************************************************************************)
(* Vocabulary of the properties.                                           *)
(***************************************************************************)
\* the reports among lines: the analyzer's and the monitor's two kinds
ReportLines(lines) ==
    SelectSeq(lines, LAMBDA l : l.kind \in {"Screen text updated", "Analysis",
                                            "Analysis error"})

NoticeLines(lines) == OfKind(lines, "No meaningful change")

\* the monitor is inside a tick, after its capture
InMonitorTick == prog = "monitor" /\ pc \in {"decide", "analyze", "advance", "sleep"}

FailureNotes ==
    {"OPENAI_API_KEY is not set", "openai package not installed", "service error"}

LastN(s, n) == SubSeq(s, Len(s) - n + 1, Len(s))

Cancelled == sig_tick # -1

\* the tick in flight has made its decision, its state update and its emission
TickComplete ==
    /\ verdict \in {"failed", "changed", "unchanged"}
    /\ verdict = "changed" =>
          /\ Len(ReportLines(out)) = 1
          /\ IF prog = "analyzer" THEN prev_digest = digest ELSE previous = current

BadRegion(r) ==
    /\ r.kind = "text"
    /\ ~(/\ Len(r.parts) = 4
         /\ \A i \in 1..Len(r.parts) : r.parts[i].isInt
         /\ r.parts[3].val > r.parts[1].val
         /\ r.parts[4].val > r.parts[2].val)

ViolatesRunConfig ==
    \/ argv.interval < MinInterval
    \/ prog = "analyzer" /\ BadRegion(argv.region)

(***************************************************************************)
(* C1: in the fuzzy loop, at the end of every tick whose verdict is        *)
(* changed, previous equals current, whether analyze returned or raised    *)
(* (exactly one report, of either kind, was printed); so when the tick     *)
(* after a changed tick captures the same text, the magnitude is 0, and a  *)
(* tick whose verdict is unchanged prints no report.                       *)
(***************************************************************************)
C1_PreviousAdvancesOnChanged ==
    prog = "monitor" =>
       /\ (pc \in {"sleep", "capture"} /\ verdict = "changed") =>
             /\ previous = current
             /\ Len(ReportLines(out)) = 1
       /\ (InMonitorTick /\ last.verdict = "changed" /\ current = last.cap) =>
             /\ tick0.prev = current
             /\ changed = 0
       /\ (InMonitorTick /\ verdict = "unchanged") => ReportLines(out) = <<>>

C1_Witness ==
    /\ prog = "monitor" /\ pc = "sleep"
    /\ last.verdict = "changed" /\ last.error
    /\ current = last.cap /\ current # <<>>
    /\ verdict = "unchanged" /\ previous = current

(***************************************************************************)
(* C2: on a changed tick of the fuzzy loop exactly one report is printed;  *)
(* it is an "Analysis error" block carrying the error description exactly  *)
(* when analyze raised, which it does in Remote mode without a credential  *)
(* (or without the package, or when the call fails) and never in Local     *)
(* mode; no analysis failure ends the process, and the loop goes on.       *)
(***************************************************************************)
C2_RemoteFailureIsReported ==
    prog = "monitor" =>
       /\ (pc \in {"advance", "sleep"} /\ verdict = "changed") =>
             /\ Len(ReportLines(out)) = 1
             /\ LET r == ReportLines(out)[1]
                IN  /\ r.kind = "Analysis error" <=> r.note \in FailureNotes
                    /\ (config.model # "local" /\ ~env.api_key) =>
                          r.kind = "Analysis error" /\ r.note = "OPENAI_API_KEY is not set"
                    /\ (config.model # "local" /\ ~env.openai_pkg) =>
                          r.kind = "Analysis error"
                    /\ config.model = "local" => r.kind = "Analysis"
       /\ (pc = "exited" /\ exit_code # 0) => verdict = "failed"
       /\ (pc = "exited" /\ HasKind(out, "Analysis error")) => Cancelled /\ exit_code = 0

C2_Witness ==
    /\ prog = "monitor" /\ pc = "decide" /\ ticks >= 2
    /\ config.model # "local" /\ ~env.api_key
    /\ last.verdict = "changed" /\ last.error

(***************************************************************************)
(* C3: once a loop has started, a capture failure never terminates the     *)
(* process: either loop ends only by cancellation, with status zero.       *)
(***************************************************************************)
C3_CaptureFailureNeverFatal ==
    (pc = "exited" /\ ticks >= 1) => (exit_code = 0 /\ Cancelled)

(***************************************************************************)
(* C4: in the digest loop a tick whose capture fails leaves prev_digest    *)
(* and the history as they were before the tick, prints no report, and     *)
(* makes one sleep only, of max(interval, 2.0), never below the interval.  *)
(***************************************************************************)
C4_CaptureFailureBackoff ==
    (prog = "analyzer" /\ verdict = "failed") =>
       /\ prev_digest = tick0.prev
       /\ recent_text = tick0.hist
       /\ ReportLines(out) = <<>>
       /\ pc = "backoff" => slept = <<>>
       /\ pc \in {"loop", "exited"} =>
             /\ slept = << IF argv.interval >= BackoffFloor
                           THEN argv.interval ELSE BackoffFloor >>
             /\ slept[1] >= argv.interval

C4_Witness ==
    /\ prog = "analyzer" /\ verdict = "failed" /\ pc = "loop"
    /\ prev_digest # <<>> /\ recent_text # <<>>
    /\ argv.interval < BackoffFloor
    /\ slept = <<BackoffFloor>>

(***************************************************************************)
(* C5: the history never holds more than the configured capacity H, and    *)
(* once H or more texts have been recorded it holds exactly the last H     *)
(* recorded texts, oldest first.                                           *)
(***************************************************************************)
C5_HistoryBounded ==
    (prog = "analyzer" /\ "recent_text" \in created) =>
       /\ Len(recent_text) <= argv.history
       /\ Len(recorded) >= argv.history =>
             /\ Len(recent_text) = argv.history
             /\ recent_text = LastN(recorded, argv.history)
       /\ Len(recorded) < argv.history => recent_text = recorded

C5_Witness ==
    /\ prog = "analyzer"
    /\ argv.history >= 2
    /\ Len(recorded) > argv.history
    /\ recent_text = LastN(recorded, argv.history)

(***************************************************************************)
(* C6: digest strategy, for a non-empty text t: previous t and current t   *)
(* is unchanged; empty previous state and current t is changed; an empty   *)
(* current text is unchanged whatever the previous state, and records and  *)
(* reports nothing.                                                        *)
(***************************************************************************)
C6_DigestDecision ==
    (prog = "analyzer" /\ pc = "sleep") =>
       /\ (cleaned # <<>> /\ tick0.prev = Sha1Hex(cleaned)) => verdict = "unchanged"
       /\ (cleaned # <<>> /\ tick0.prev = <<>>) => verdict = "changed"
       /\ cleaned = <<>> =>
             /\ verdict = "unchanged"
             /\ prev_digest = tick0.prev
             /\ recent_text = tick0.hist
             /\ out = <<>>

C6_Witness ==
    /\ prog = "analyzer" /\ pc = "sleep"
    /\ cleaned = <<>> /\ tick0.prev # <<>>
    /\ verdict = "unchanged"

(***************************************************************************)
(* C7 as stated: fuzzy strategy, a tick with previous = current has        *)
(* magnitude 0 and the verdict unchanged, for every threshold >= 0, so no  *)
(* analysis runs on it.                                                    *)
(***************************************************************************)
C7_Original ==
    (InMonitorTick /\ tick0.prev = current) =>
       /\ changed = 0
       /\ verdict # "changed"
       /\ pc \notin {"analyze", "advance"}

(***************************************************************************)
(* C7 as amended: a tick with previous = current has magnitude 0; for      *)
(* every threshold >= 1 its verdict is unchanged and no analysis runs;     *)
(* with the threshold 0 its verdict is changed (0 >= 0).                   *)
(***************************************************************************)
C7_IdenticalTextBelowThreshold ==
    (InMonitorTick /\ tick0.prev = current) =>
       /\ changed = 0
       /\ config.min_change_chars >= 1 =>
             /\ verdict # "changed"
             /\ pc \in {"decide", "sleep"}
             /\ ReportLines(out) = <<>>
       /\ (config.min_change_chars = 0 /\ pc # "decide") => verdict = "changed"

C7_Witness ==
    /\ prog = "monitor" /\ pc = "sleep"
    /\ tick0.prev = current /\ current # <<>>
    /\ config.min_change_chars >= 1
    /\ verdict = "unchanged" /\ Len(NoticeLines(out)) = 1

(***************************************************************************)
(* C8 as stated: every tick with a successful capture prints exactly one   *)
(* of a report (verdict changed) or a "no change" notice (verdict          *)
(* unchanged), in both loops.                                              *)
(***************************************************************************)
C8_Original ==
    pc = "sleep" =>
       /\ Len(ReportLines(out)) + Len(NoticeLines(out)) = 1
       /\ verdict = "changed" <=> Len(ReportLines(out)) = 1

(***************************************************************************)
(* C8 as amended: a tick with a successful capture prints exactly one      *)
(* report when its verdict is changed; when it is unchanged the fuzzy loop *)
(* prints exactly one "no change" notice and the digest loop prints        *)
(* nothing.  In the digest loop a non-empty capture on empty prior state   *)
(* is reported, and a non-empty capture equal to the previous capture is   *)
(* not.                                                                    *)
(***************************************************************************)
C8_OneEmissionPerTick ==
    pc = "sleep" =>
       /\ verdict \in {"changed", "unchanged"}
       /\ verdict = "changed" =>
             Len(ReportLines(out)) = 1 /\ NoticeLines(out) = <<>>
       /\ (verdict = "unchanged" /\ prog = "monitor") =>
             ReportLines(out) = <<>> /\ Len(out) = 1 /\ Len(NoticeLines(out)) = 1
       /\ (verdict = "unchanged" /\ prog = "analyzer") => out = <<>>
       /\ (prog = "analyzer" /\ cleaned # <<>> /\ tick0.prev = <<>>) =>
             verdict = "changed"
       /\ (prog = "analyzer" /\ cleaned # <<>> /\ last.verdict # "none"
             /\ cleaned = last.cap) => verdict = "unchanged"

C8_Witness ==
    /\ prog = "analyzer" /\ pc = "sleep" /\ ticks >= 2
    /\ last.verdict = "changed" /\ reports = 1
    /\ cleaned # <<>> /\ cleaned = last.cap
    /\ verdict = "unchanged" /\ out = <<>>

(***************************************************************************)
(* C9 as stated: in both loops, once cancellation has been signalled no    *)
(* new capture starts, and the tick in flight when it arrives still        *)
(* completes its decision, state update and emission before Stopped.       *)
(***************************************************************************)
C9_Original ==
    (pc = "exited" /\ Cancelled) =>
       /\ ticks = sig_tick
       /\ ticks >= 1 => TickComplete

(***************************************************************************)
(* C9 as amended: in the digest loop cancellation is cooperative: the flag *)
(* is read at the top of a tick only, no tick starts once it is set, and   *)
(* the tick in flight completes (decision, state update, emission, sleep)  *)
(* before the stop notice and status 0.  In the fuzzy loop                 *)
(* KeyboardInterrupt ends run wherever it is: no capture follows, the stop *)
(* notice is printed and the status is 0, but the tick in flight is        *)
(* abandoned where it was, its remaining steps not run.                    *)
(***************************************************************************)
C9_Cancellation ==
    /\ prog = "analyzer" =>
          /\ STOP <=> Cancelled
          /\ STOP => ticks = sig_tick
          /\ (pc = "exited" /\ exit_code = 0) =>
                /\ STOP
                /\ out[Len(out)].note = "Stopped."
                /\ ticks >= 1 => TickComplete /\ Len(slept) = 1
    /\ (prog = "monitor" /\ pc = "exited" /\ Cancelled) =>
          /\ exit_code = 0
          /\ ticks = sig_tick
          /\ out[Len(out)].note = "Stopped."
          /\ (cut \in {"capture", "sleep"} /\ ticks >= 1) => TickComplete
          /\ cut = "decide" => verdict = "none"
          /\ cut = "analyze" => verdict = "changed" /\ ReportLines(out) = <<>>
          /\ cut = "advance" =>
                verdict = "changed" /\ Len(ReportLines(out)) = 1 /\ previous = tick0.prev

C9_Witness ==
    /\ prog = "analyzer" /\ pc = "exited" /\ exit_code = 0
    /\ cut = "process" /\ verdict = "changed"
    /\ Len(ReportLines(out)) = 1 /\ prev_digest = digest

(***************************************************************************)
(* C10 as stated: every configuration that violates the constraints        *)
(* (interval < 0.5, or a region without four integer parts or without      *)
(* x2 > x1 and y2 > y1) ends startup with a non-zero status before any     *)
(* tick, no capture made and no loop state created.                        *)
(***************************************************************************)
C10_Original ==
    (pc # "startup" /\ ViolatesRunConfig) =>
       /\ pc = "exited"
       /\ exit_code # 0
       /\ ticks = 0
       /\ created = {}

(***************************************************************************)
(* C10 as amended: in the analyzer every such configuration ends startup   *)
(* with status 2 and one line on stderr, before any tick, with no loop     *)
(* state created, so its loop never runs with an interval below 0.5 or a   *)
(* bad region.  The monitor rejects nothing: it raises an interval below   *)
(* 0.5 to 0.5 and a negative threshold to 0, and enters its loop.          *)
(***************************************************************************)
C10_StartupValidation ==
    /\ (prog = "analyzer" /\ pc # "startup" /\ ViolatesRunConfig) =>
          /\ pc = "exited"
          /\ exit_code = 2
          /\ ticks = 0
          /\ created = {}
          /\ Len(out) = 1 /\ out[1].kind = "stderr"
    /\ (prog = "analyzer" /\ pc \notin {"startup", "exited"}) =>
          argv.interval >= MinInterval /\ ~BadRegion(argv.region)
    /\ (prog = "monitor" /\ pc # "startup") =>
          /\ config.interval >= MinInterval
          /\ config.interval =
                (IF argv.interval < MinInterval THEN MinInterval ELSE argv.interval)
          /\ config.min_change_chars >= 0
          /\ created = {"previous"}
          /\ (pc = "exited" /\ exit_code # 0) => ticks >= 1

C10_Witness ==
    /\ prog = "analyzer" /\ pc = "exited" /\ exit_code = 2
    /\ argv.interval >= MinInterval
    /\ BadRegion(argv.region)

\* C11 -- monitor: a tick whose previous text p is not empty and whose capture
\* is empty has magnitude exactly Len(p); its verdict is changed exactly when
\* Len(p) >= min_change_chars; after such a changed tick previous is the empty
\* text, and a capture t compared with an empty previous has magnitude Len(t).
C11_EmptyCaptureMagnitude ==
    InMonitorTick =>
       /\ (tick0.prev # <<>> /\ current = <<>>) =>
             /\ changed = Len(tick0.prev)
             /\ pc # "decide" =>
                   (verdict = "changed" <=> Len(tick0.prev) >= config.min_change_chars)
             /\ (pc = "sleep" /\ verdict = "changed") => previous = <<>>
       /\ (ticks > 1 /\ last.verdict = "changed" /\ last.cap = <<>>) =>
             /\ tick0.prev = <<>>
             /\ changed = Len(current)

\* a text was analysed, the screen then went empty and that tick was changed,
\* and the capture after it is not empty
C11_Witness ==
    /\ InMonitorTick /\ ticks = 3
    /\ config.min_change_chars >= 1
    /\ last.verdict = "changed" /\ last.cap = <<>>
    /\ tick0.prev = <<>>
    /\ current # <<>> /\ changed = Len(current)

IsPrefix(p, t) == Len(p) <= Len(t) /\ SubSeq(t, 1, Len(p)) = p

\* the second tick of a monitor run whose capture is the first tick's capture
\* with k >= min_change_chars characters appended
AppendedCapture ==
    /\ InMonitorTick /\ ticks = 2
    /\ IsPrefix(last.cap, current)
    /\ Len(current) - Len(last.cap) >= config.min_change_chars

\* C12 as stated: on the second tick the magnitude is >= k, the verdict is
\* changed, and the report of that tick is the run's second report.
C12_Original ==
    AppendedCapture =>
       /\ changed >= Len(current) - Len(last.cap)
       /\ pc # "decide" => verdict = "changed"
       /\ pc \in {"advance", "sleep"} => reports = 2

\* C12 -- monitor, from an empty previous: a capture p followed by p with
\* k >= min_change_chars characters appended gives on the second tick a
\* magnitude >= k, the verdict changed and one report for that tick; that
\* report is the run's second exactly when the first tick was changed too,
\* which it is when Len(p) >= min_change_chars.
C12_AppendedTextIsReported ==
    AppendedCapture =>
       /\ changed >= Len(current) - Len(last.cap)
       /\ pc # "decide" => verdict = "changed"
       /\ pc \in {"advance", "sleep"} =>
             /\ Len(ReportLines(out)) = 1
             /\ reports = (IF last.verdict = "changed" THEN 2 ELSE 1)
       /\ Len(last.cap) >= config.min_change_chars => last.verdict = "changed"

\* p was reported, then p with k = min_change_chars >= 1 appended characters
\* is reported as the second report
C12_Witness ==
    /\ AppendedCapture /\ pc = "sleep"
    /\ last.cap # <<>> /\ last.verdict = "changed"
    /\ config.min_change_chars >= 1
    /\ Len(current) - Len(last.cap) = config.min_change_chars
    /\ verdict = "changed" /\ reports = 2

\* C13 -- normalization is idempotent: for every text x over a letter, space,
\* tab, carriage return and newline, normalize_text(normalize_text(x)) =
\* normalize_text(x) and clean_text(clean_text(x)) = clean_text(x).
C13_NormalizationIdempotent ==
    /\ Len(norm) = 2 => norm[2] = norm[1]
    /\ Len(clean) = 2 => clean[2] = clean[1]

\* both functions were applied twice to a text that each of them changes, to
\* results that are not empty and differ from one another
C13_Witness ==
    /\ Len(norm) = 2 /\ Len(clean) = 2
    /\ norm[1] # input /\ norm[1] # <<>>
    /\ clean[1] # input /\ clean[1] # <<>>
    /\ norm[1] # clean[1]
    /\ \E i \in 1..Len(input) : input[i] = CR

\* the order of section 4.6: signal extraction, record, summarize, analyzer
\* dispatch, emission, advance of the previous-sample state
SpecifiedSteps == <<"extract", "record", "summarize", "analyze", "emit", "advance">>

MutatesSampleState ==
    \/ prev_digest' # prev_digest
    \/ recent_text' # recent_text
    \/ recorded' # recorded
    \/ previous' # previous

\* a step that gives the tick the verdict changed
BecomesChanged == verdict # "changed" /\ verdict' = "changed"

\* C15 -- the history buffer and the previous-sample state are mutated only on
\* a tick whose verdict is changed; a tick whose verdict is unchanged ends with
\* them exactly as they were at its start; in the digest loop, which is the
\* loop that keeps a history, a record is made exactly when a verdict becomes
\* changed, so the records ever made are as many as the changed verdicts.
C15_MutatedOnlyOnChanged ==
    /\ [](/\ (pc = "sleep" /\ verdict = "unchanged") =>
                /\ prog = "analyzer" =>
                      /\ prev_digest = tick0.prev
                      /\ recent_text = tick0.hist
                      /\ cleaned = <<>> \/ digest = prev_digest
                /\ prog = "monitor" =>
                      /\ previous = tick0.prev
                      /\ changed < config.min_change_chars
          /\ pc = "backoff" => (prev_digest = tick0.prev /\ recent_text = tick0.hist)
          /\ prog = "analyzer" => Len(recorded) = reports)
    /\ [][/\ MutatesSampleState => verdict' = "changed"
          /\ prog = "analyzer" =>
                /\ BecomesChanged <=> Len(recorded') = Len(recorded) + 1
                /\ ~BecomesChanged => recorded' = recorded]_vars

\* the digest loop ends an unchanged tick after two changed ones, with a
\* history that is not empty
C15_Witness ==
    /\ prog = "analyzer" /\ pc = "sleep" /\ verdict = "unchanged"
    /\ Len(recorded) = 2 /\ reports = 2
    /\ recent_text # <<>> /\ recent_text = tick0.hist
    /\ cleaned # <<>>

\* the program has left its loop through the stop notice, with status zero
StoppedCleanly ==
    /\ pc = "exited" /\ exit_code = 0
    /\ out # <<>> /\ out[Len(out)] = Line("stdout", <<>>, "Stopped.")

\* C16 -- when every capture, analysis and sleep returns, a signalled
\* cancellation is followed by the stop notice and exit status zero, whatever
\* the captures and analyses did, failures on every tick included.
C16_CancellationStops == Cancelled ~> StoppedCleanly

\* the digest loop stopped after a cancellation signalled in a tick whose
\* capture failed, every capture of the run having failed
C16_Witness ==
    /\ prog = "analyzer" /\ StoppedCleanly /\ Cancelled
    /\ cut = "backoff" /\ verdict = "failed"
    /\ ticks = 2 /\ reports = 0 /\ last.verdict = "none"

\* C17 -- monitor: previous is the text captured on the most recent tick whose
\* verdict was changed, or the empty text if there was none, and not the most
\* recent capture; every magnitude is measured from that baseline, so a
\* capture that differs from its predecessor by less than min_change_chars is
\* still analysed once its difference from the baseline reaches the threshold.
C17_BaselineIsLastAnalysedText ==
    prog = "monitor" =>
       /\ pc \in {"capture", "decide", "sleep"} => previous = last_changed
       /\ pc \in {"analyze", "advance"} =>
             (previous = tick0.prev /\ last_changed = current)
       /\ InMonitorTick =>
             /\ changed = diff_size(tick0.prev, current)
             /\ (pc # "decide" /\ diff_size(tick0.prev, current) >= config.min_change_chars)
                   => verdict = "changed"
             /\ (pc = "sleep" /\ verdict = "unchanged") =>
                   (previous = tick0.prev /\ last_changed = tick0.prev)

\* an analysed text, then a capture at a distance below the threshold from it,
\* then one below the threshold from that capture and at the threshold from
\* the analysed text: the third tick is changed
C17_Witness ==
    /\ InMonitorTick /\ pc = "sleep" /\ ticks = 3
    /\ tick0.prev # <<>> /\ last.cap # <<>> /\ last.cap # tick0.prev
    /\ last.verdict = "unchanged"
    /\ diff_size(last.cap, current) < config.min_change_chars
    /\ diff_size(tick0.prev, current) >= config.min_change_chars
    /\ verdict = "changed"

\* C18 -- analyzer: prev_digest is empty exactly while no report has been
\* emitted, and otherwise is the digest of the most recently reported text; no
\* two consecutive reports are for the same cleaned text, whatever empty or
\* failed captures lie between them: a capture equal to the last reported
\* text is unchanged, and a capture that is not empty and differs from it is
\* reported.
C18_DigestOfLastReport ==
    prog = "analyzer" =>
       /\ prev_digest = <<>> <=> reports = 0
       /\ reports = Len(recorded)
       /\ reports > 0 =>
             /\ last_changed = recorded[Len(recorded)]
             /\ prev_digest = Sha1Hex(last_changed)
       /\ \A i \in 1..(Len(recorded) - 1) : recorded[i] # recorded[i + 1]
       /\ pc = "sleep" =>
             /\ verdict = "changed" <=> (cleaned # <<>> /\ digest # tick0.prev)
             /\ (reports > 0 /\ tick0.prev = Sha1Hex(cleaned)) => verdict = "unchanged"
             /\ verdict = "unchanged" =>
                   (cleaned = <<>> \/ (reports > 0 /\ cleaned = last_changed))

\* t, u, t with u not empty and different from t: three reports
C18_Witness ==
    /\ prog = "analyzer" /\ pc = "sleep" /\ ticks = 3
    /\ Len(recorded) = 3 /\ reports = 3
    /\ recorded[1] = recorded[3] /\ recorded[2] # recorded[1]
    /\ verdict = "changed"

\* t, an empty capture, then t again: the third tick is unchanged and the run
\* has one report
C18_SameTextAfterEmptyCapture ==
    /\ prog = "analyzer" /\ pc = "sleep" /\ ticks = 3
    /\ last.cap = <<>> /\ last.verdict = "unchanged"
    /\ cleaned # <<>> /\ recorded = <<cleaned>>
    /\ verdict = "unchanged" /\ reports = 1

\* the rolling summary printed with the report of this tick
ReportedSummary == OfKind(out, "Screen text updated")[1].note

\* C19 -- analyzer, for every --history the startup accepts: on a changed tick
\* the text is recorded before the summary is computed, so the history is not
\* empty, its most recent entry is the text reported, and the report does not
\* carry the placeholder "No text captured yet.".
C19_HistoryHoldsReportedText ==
    (prog = "analyzer" /\ pc = "sleep" /\ verdict = "changed") =>
       /\ recent_text # <<>>
       /\ recent_text[Len(recent_text)] = cleaned
       /\ ReportedSummary # "No text captured yet."

\* what the code does: the claim holds for every accepted capacity >= 1, and
\* with --history 0 every report carries the placeholder
C19_HoldsForPositiveCapacity ==
    (prog = "analyzer" /\ pc = "sleep" /\ verdict = "changed") =>
       IF argv.history >= 1
       THEN /\ recent_text # <<>>
            /\ recent_text[Len(recent_text)] = cleaned
            /\ ReportedSummary = summarize_recent(recent_text)
            /\ ReportedSummary # "No text captured yet."
       ELSE /\ argv.history = 0
            /\ recent_text = <<>>
            /\ ReportedSummary = "No text captured yet."

====
